---- MODULE Spec2Model ----
(***************************************************************************)
(* InMemoryRecordStore (mongo/db/storage/in_memory): an ordered record     *)
(* table mutated eagerly under RecoveryUnit changes that undo each         *)
(* mutation on abort, capped eviction, and the forward / reverse cursors.  *)
(***************************************************************************)
EXTENDS Integers, Sequences, FiniteSets, TLC

\* ------------------------------------------------------------------ bounds
\* Highest identifier the allocator hands out / highest "ts" a payload carries.
MaxId == 3
\* Longest payload, in bytes.
MaxLen == 2
\* Most mutating calls made in one transaction before it commits or aborts.
MaxTxnOps == 2
\* Longest DamageVector handed to updateWithDamages.
MaxDamages == 1

\* ------------------------------------------------------------ program values
\* RecordId(): the null identifier.
NullId == 0
\* Records::end(): the past-the-end iterator (iterators are held as the key
\* of the element they point at).
EndIt == -1
\* cappedMaxSize / cappedMaxDocs of a store that is not capped or not bounded.
Unbounded == -1
\* Data::nextId of a freshly constructed table.
FirstId == 1

Ids == 1..MaxId
Bytes == 0..MaxId

\* InMemoryRecord(len) filled by memcpy: the size and the owned bytes.
InMemoryRecord(data) == [size |-> Len(data), data |-> data]
NoRecord == [size |-> 0, data |-> <<>>]
EmptyRecords == <<>>

\* Payloads callers hand in: a first byte (read as the "ts" of a log entry)
\* followed by filler.
Payloads == { [i \in 1..n |-> IF i = 1 THEN b ELSE 1] : b \in Bytes, n \in 1..MaxLen }
PlainPayloads == { [i \in 1..n |-> 1] : n \in 1..MaxLen }

VARIABLES
    records,        \* Data::records, RecordId -> InMemoryRecord, ordered by key
    dataSize,       \* Data::dataSize
    nextId,         \* Data::nextId
    isOplog,        \* Data::isOplog
    store,          \* the handle: _isCapped, _cappedMaxSize, _cappedMaxDocs, _cappedDeleteCallback
    journal,        \* changes registered with the RecoveryUnit, oldest first
    mode,           \* "active" | "aborting" | "fatal" (invariant failed) | "crashed"
    cursor,         \* the open cursor, or NoCursor
    last,           \* the last call and what it returned
    snapshot,       \* (records, dataSize) when the running transaction began
    accepted,       \* the identifier the last successful log-typed insert accepted
                    \* (NullId: none, or that insert was rolled back)
    born            \* for every identifier allocateLoc has handed out, the size of
                    \* the record inserted under it

vars == <<records, dataSize, nextId, isOplog, store, journal, mode, cursor, last,
          snapshot, accepted, born>>

\* ------------------------------------------------------------ ordered map
Keys(recs) == DOMAIN recs
MinKey(S) == CHOOSE x \in S : \A y \in S : x <= y
MaxKey(S) == CHOOSE x \in S : \A y \in S : x >= y
\* records.begin()
Begin(recs) == IF Keys(recs) = {} THEN EndIt ELSE MinKey(Keys(recs))
\* records.find(id)
Find(recs, id) == IF id \in Keys(recs) THEN id ELSE EndIt
\* records.lower_bound(id): first key >= id
LowerBound(recs, id) ==
    LET S == { k \in Keys(recs) : k >= id } IN IF S = {} THEN EndIt ELSE MinKey(S)
\* records.upper_bound(id): first key > id
UpperBound(recs, id) ==
    LET S == { k \in Keys(recs) : k > id } IN IF S = {} THEN EndIt ELSE MinKey(S)
\* ++it on a forward iterator that is not end()
Succ(recs, it) == UpperBound(recs, it)
\* --it: the element before it (the last one when it is end()); EndIt when
\* there is none
Prev(recs, it) ==
    LET S == { k \in Keys(recs) : it = EndIt \/ k < it }
    IN IF S = {} THEN EndIt ELSE MaxKey(S)
\* records[loc] = rec
Put(recs, loc, rec) ==
    [k \in Keys(recs) \cup {loc} |-> IF k = loc THEN rec ELSE recs[k]]
\* records.erase(loc)
Erase(recs, loc) == [k \in Keys(recs) \ {loc} |-> recs[k]]
\* numRecords()
NumRecords(recs) == Cardinality(Keys(recs))

RECURSIVE SumSizes(_)
SumSizes(recs) ==
    IF Keys(recs) = {} THEN 0
    ELSE LET k == MinKey(Keys(recs)) IN recs[k].size + SumSizes(Erase(recs, k))


\* ------------------------------------------------------- RecoveryUnit changes
\* A registered change: the variant and what its constructor captured.
InsertChange(loc) ==
    [kind |-> "Insert", loc |-> loc, rec |-> NoRecord,
     records |-> EmptyRecords, dataSize |-> 0]
RemoveChange(loc, rec) ==
    [kind |-> "Remove", loc |-> loc, rec |-> rec,
     records |-> EmptyRecords, dataSize |-> 0]
\* TruncateChange's constructor that swaps the records and not dataSize
TruncateChangeRecordsOnly(recs, size) ==
    [kind |-> "Truncate", loc |-> NullId, rec |-> NoRecord,
     records |-> recs, dataSize |-> 0]

\* TruncateChange's constructor swaps the table's records and dataSize with its
\* own empty ones: the change keeps what the table held.
TruncateChange(recs, size) ==
    [kind |-> "Truncate", loc |-> NullId, rec |-> NoRecord,
     records |-> recs, dataSize |-> size]

\* InsertChange::rollback on the table D = [records, dataSize]
InsertChangeRollback(c, D) ==
    IF Find(D.records, c.loc) # EndIt
    THEN [records |-> Erase(D.records, c.loc),
          dataSize |-> D.dataSize - D.records[c.loc].size]
    ELSE D

\* RemoveChange::rollback without the subtraction of the size now at loc
RemoveChangeRollbackNoSubtract(c, D) ==
    [records |-> Put(D.records, c.loc, c.rec), dataSize |-> D.dataSize + c.rec.size]

\* RemoveChange::rollback
RemoveChangeRollback(c, D) ==
    LET sub == IF Find(D.records, c.loc) # EndIt THEN D.records[c.loc].size ELSE 0
    IN [records |-> Put(D.records, c.loc, c.rec),
        dataSize |-> D.dataSize - sub + c.rec.size]

\* TruncateChange::rollback that swaps nothing back
TruncateChangeRollbackNoSwap(c, D) == D

\* TruncateChange::rollback: swap back
TruncateChangeRollback(c, D) ==
    [records |-> c.records, dataSize |-> c.dataSize]

\* Change::rollback, by variant
ChangeRollback(c, D) ==
    CASE c.kind = "Insert" -> InsertChangeRollback(c, D)
      [] c.kind = "Remove" -> RemoveChangeRollback(c, D)
      [] c.kind = "Truncate" -> TruncateChangeRollback(c, D)

\* Change::commit where TruncateChange swaps as its rollback does
ChangeCommitSwaps(c, D) ==
    IF c.kind = "Truncate" THEN [records |-> c.records, dataSize |-> c.dataSize] ELSE D

\* Change::commit, by variant: all three are empty
ChangeCommit(c, D) ==
    CASE c.kind = "Insert" -> D
      [] c.kind = "Remove" -> D
      [] c.kind = "Truncate" -> D

RECURSIVE CommitAll(_, _)
CommitAll(changes, D) ==
    IF changes = <<>> THEN D
    ELSE CommitAll(Tail(changes), ChangeCommit(Head(changes), D))

\* ------------------------------------------------------------- the store
\* The part of the state one call works on.
\* hooks: the invocations of aboutToDeleteCapped the call has made.
Work == [records |-> records, dataSize |-> dataSize, journal |-> journal, status |-> "OK",
         hooks |-> 0]

\* deleteRecord that registers no RemoveChange
deleteRecordUnjournaled(T, loc) ==
    [T EXCEPT !.dataSize = @ - T.records[loc].size,
              !.records = Erase(@, loc)]

\* deleteRecord that leaves dataSize as it was
deleteRecordKeepsSize(T, loc) ==
    LET rec == T.records[loc]
    IN [T EXCEPT !.journal = Append(@, RemoveChange(loc, rec)),
                 !.records = Erase(@, loc)]

\* InMemoryRecordStore::deleteRecord, loc present
deleteRecord(T, loc) ==
    LET rec == T.records[loc]
    IN [T EXCEPT !.journal = Append(@, RemoveChange(loc, rec)),
                 !.dataSize = @ - rec.size,
                 !.records = Erase(@, loc)]

\* cappedAndNeedDelete that forgets the document ceiling
cappedAndNeedDeleteSizeOnly(T) ==
    store.isCapped /\ T.dataSize > store.cappedMaxSize

\* cappedAndNeedDelete with >= for > on the document ceiling
cappedAndNeedDeleteOffByOne(T) ==
    /\ store.isCapped
    /\ \/ T.dataSize > store.cappedMaxSize
       \/ store.cappedMaxDocs # Unbounded /\ NumRecords(T.records) >= store.cappedMaxDocs

\* InMemoryRecordStore::cappedAndNeedDelete
cappedAndNeedDelete(T) ==
    IF ~store.isCapped THEN FALSE
    ELSE IF T.dataSize > store.cappedMaxSize THEN TRUE
    ELSE IF store.cappedMaxDocs # Unbounded /\ NumRecords(T.records) > store.cappedMaxDocs
         THEN TRUE
    ELSE FALSE

\* cappedDeleteAsNeeded that deletes the oldest record before it asks the hook
RECURSIVE cappedDeleteAsNeededDeleteFirst(_, _, _)
cappedDeleteAsNeededDeleteFirst(T, failAt, calls) ==
    IF ~cappedAndNeedDelete(T) THEN T
    ELSE IF Keys(T.records) = {} THEN [T EXCEPT !.status = "fatal"]
    ELSE LET id == Begin(T.records)
             called == [deleteRecord(T, id)
                          EXCEPT !.hooks = IF store.hasCallback THEN @ + 1 ELSE @]
         IN IF store.hasCallback /\ calls + 1 = failAt
            THEN [called EXCEPT !.status = "CallbackFailed"]
            ELSE cappedDeleteAsNeededDeleteFirst(called, failAt, calls + 1)

\* InMemoryRecordStore::cappedDeleteAsNeeded. failAt: the invocation of
\* aboutToDeleteCapped that returns a failure (0: none does); calls: the
\* invocations made so far.
RECURSIVE cappedDeleteAsNeeded(_, _, _)
cappedDeleteAsNeeded(T, failAt, calls) ==
    IF ~cappedAndNeedDelete(T) THEN T
    ELSE IF Keys(T.records) = {} THEN [T EXCEPT !.status = "fatal"]
    ELSE LET id == Begin(T.records)
             called == [T EXCEPT !.hooks = IF store.hasCallback THEN @ + 1 ELSE @]
         IN IF store.hasCallback /\ calls + 1 = failAt
            THEN [called EXCEPT !.status = "CallbackFailed"]
            ELSE cappedDeleteAsNeeded(deleteRecord(called, id), failAt, calls + 1)

\* oploghack::extractKey: the identifier held in the payload's "ts" field
extractKey(data) ==
    IF Len(data) = 0 \/ data[1] = 0
    THEN [status |-> "MalformedLogEntry", loc |-> NullId]
    ELSE [status |-> "OK", loc |-> data[1]]

\* extractAndCheckLocForOplog with < for <=
extractAndCheckLocStrict(recs, data) ==
    LET st == extractKey(data)
    IN IF st.status # "OK" THEN st
       ELSE IF Keys(recs) # {} /\ st.loc < MaxKey(Keys(recs))
            THEN [status |-> "OutOfOrder", loc |-> NullId]
       ELSE st

\* extractAndCheckLocForOplog that compares with begin() for rbegin()
extractAndCheckLocLowest(recs, data) ==
    LET st == extractKey(data)
    IN IF st.status # "OK" THEN st
       ELSE IF Keys(recs) # {} /\ st.loc <= MinKey(Keys(recs))
            THEN [status |-> "OutOfOrder", loc |-> NullId]
       ELSE st

\* InMemoryRecordStore::extractAndCheckLocForOplog
extractAndCheckLocForOplog(recs, data) ==
    LET st == extractKey(data)
    IN IF st.status # "OK" THEN st
       ELSE IF Keys(recs) # {} /\ st.loc <= MaxKey(Keys(recs))
            THEN [status |-> "OutOfOrder", loc |-> NullId]
       ELSE st

\* recordFor that reports a missing record to its caller
recordForSoft(recs, loc) ==
    IF Find(recs, loc) = EndIt THEN [status |-> "NotFound", rec |-> NoRecord]
    ELSE [status |-> "OK", rec |-> recs[loc]]

\* InMemoryRecordStore::recordFor: invariant(it != records.end())
recordFor(recs, loc) ==
    IF Find(recs, loc) = EndIt THEN [status |-> "fatal", rec |-> NoRecord]
    ELSE [status |-> "OK", rec |-> recs[loc]]

\* findRecord with lower_bound for find
findRecordLowerBound(recs, loc) ==
    LET it == LowerBound(recs, loc)
    IN IF it = EndIt THEN [found |-> FALSE, data |-> <<>>]
       ELSE [found |-> TRUE, data |-> recs[it].data]

\* InMemoryRecordStore::findRecord: whether loc is there, and *rd
findRecord(recs, loc) ==
    LET it == Find(recs, loc)
    IN IF it = EndIt THEN [found |-> FALSE, data |-> <<>>]
       ELSE [found |-> TRUE, data |-> recs[it].data]

\* InMemoryRecordStore::oplogStartHack. "none": boost::none; "undefined": the
\* iterator at begin() is decremented and then dereferenced.
oplogStartHack(recs, oplog, startingPosition) ==
    IF ~oplog THEN [status |-> "none", loc |-> NullId]
    ELSE IF Keys(recs) = {} THEN [status |-> "OK", loc |-> NullId]
    ELSE LET it == LowerBound(recs, startingPosition)
         IN IF it = EndIt \/ it > startingPosition
            THEN IF it = Begin(recs) THEN [status |-> "undefined", loc |-> NullId]
                 ELSE [status |-> "OK", loc |-> Prev(recs, it)]
            ELSE [status |-> "OK", loc |-> it]

\* What a call reports back, and the collaborators it invoked: hooks counts
\* the invocations of aboutToDeleteCapped, verdict is what the UpdateNotifier
\* answered ("none": it was not invoked), notified tells whether the
\* UpdateNotifier was invoked.
Return(op, status, loc, data) ==
    [op |-> op, status |-> status, loc |-> loc, data |-> data, hooks |-> 0,
     notified |-> FALSE, verdict |-> "none"]

\* Writers run only while no cursor is in use: a cursor is saved before the
\* table is changed and restored afterwards.
CanMutate == mode = "active" /\ (cursor.open => cursor.saved)
InTxnBudget == Len(journal) < MaxTxnOps

\* The calls of aboutToDeleteCapped that may fail during one call.
FailAts == 0..2
\* No UpdateNotifier, one that agrees, one that fails.
Notifiers == {"none", "ok", "fail"}

Finish(T, ret) ==
    /\ records' = T.records
    /\ dataSize' = T.dataSize
    /\ journal' = T.journal
    /\ mode' = IF T.status = "fatal" THEN "fatal" ELSE mode
    /\ last' = [ret EXCEPT !.status = T.status, !.hooks = T.hooks]

\* insertRecord's size check that is never made
exceedsCappedMaxSizeUnchecked(len) == FALSE

\* insertRecord: _isCapped && len > _cappedMaxSize
exceedsCappedMaxSize(len) == store.isCapped /\ len > store.cappedMaxSize

\* allocateLoc that hands out nextId without advancing it
allocateLocNoAdvance(id) == [loc |-> id, nextId |-> id]

\* InMemoryRecordStore::allocateLoc on Data::nextId = id: RecordId(nextId++)
allocateLoc(id) == [loc |-> id, nextId |-> id + 1]

\* InMemoryRecordStore::insertRecord (both overloads)
InsertRecord(data, failAt) ==
    /\ CanMutate /\ InTxnBudget
    /\ LET len == Len(data)
       IN IF exceedsCappedMaxSize(len)
          THEN /\ last' = Return("insert", "ExceedsCapacity", NullId, data)
               /\ UNCHANGED <<records, dataSize, nextId, journal, mode, accepted, born>>
          ELSE LET st == IF isOplog THEN extractAndCheckLocForOplog(records, data)
                         ELSE [status |-> "OK", loc |-> allocateLoc(nextId).loc]
               IN IF st.status # "OK"
                  THEN /\ last' = Return("insert", st.status, NullId, data)
                       /\ UNCHANGED <<records, dataSize, nextId, journal, mode, accepted,
                                      born>>
                  ELSE /\ isOplog \/ nextId <= MaxId
                       /\ nextId' = IF isOplog THEN nextId ELSE allocateLoc(nextId).nextId
                       /\ LET T1 == [Work EXCEPT
                                       !.journal = Append(@, InsertChange(st.loc)),
                                       !.dataSize = @ + len,
                                       !.records = Put(@, st.loc, InMemoryRecord(data))]
                              T2 == cappedDeleteAsNeeded(T1, failAt, 0)
                          IN /\ Finish(T2, Return("insert", "OK", st.loc, data))
                             /\ accepted' = IF isOplog /\ T2.status = "OK"
                                            THEN st.loc ELSE accepted
                       /\ born' = IF isOplog THEN born ELSE Put(born, st.loc, len)
    /\ UNCHANGED <<isOplog, store, cursor, snapshot>>

\* InMemoryRecordStore::deleteRecord as a call; recordFor's invariant fails on
\* an identifier that is not in the table
DeleteRecord(loc) ==
    /\ CanMutate /\ InTxnBudget
    /\ IF recordFor(records, loc).status # "OK"
       THEN /\ mode' = IF recordFor(records, loc).status = "fatal" THEN "fatal" ELSE mode
            /\ last' = Return("delete", recordFor(records, loc).status, loc, <<>>)
            /\ UNCHANGED <<records, dataSize, journal>>
       ELSE Finish(deleteRecord(Work, loc), Return("delete", "OK", loc, <<>>))
    /\ UNCHANGED <<nextId, isOplog, store, cursor, snapshot, accepted, born>>

\* The payloads update writes, and the source buffer patches copy from.
UpdatePayloads == { [i \in 1..n |-> 2] : n \in 1..MaxLen }
DamageSource == <<2, 2>>
\* One DamageEvent: {sourceOffset, targetOffset, size}, inside both buffers.
DamageEvents(len) ==
    { [sourceOffset |-> so, targetOffset |-> to, size |-> n] :
        so \in 0..(Len(DamageSource) - 1), to \in 0..(len - 1), n \in 1..len }
DamageInRange(e, len) ==
    e.targetOffset + e.size <= len /\ e.sourceOffset + e.size <= Len(DamageSource)
\* The DamageVectors handed to updateWithDamages for a record of len bytes.
RECURSIVE DamageVectors(_, _)
DamageVectors(len, n) ==
    IF n = 0 THEN { <<>> }
    ELSE LET shorter == DamageVectors(len, n - 1)
         IN shorter \cup
            { Append(v, e) : v \in { w \in shorter : Len(w) = n - 1 },
                             e \in { d \in DamageEvents(len) : DamageInRange(d, len) } }

\* updateRecord's growth check that is never made
cappedGrowthUnchecked(len, oldLen) == FALSE

\* updateRecord's growth check made against cappedMaxSize for oldLen
cappedGrowthAgainstMax(len, oldLen) == store.isCapped /\ len > store.cappedMaxSize

\* updateRecord: _isCapped && len > oldLen
cappedGrowth(len, oldLen) == store.isCapped /\ len > oldLen

\* updateRecord that goes on when the notifier fails
callbackStatusIgnored(notifier) == FALSE

\* updateRecord: notifier && !callbackStatus.isOK()
callbackStatusNotOK(notifier) == notifier = "fail"

\* InMemoryRecordStore::updateRecord. notifier: "none" (no UpdateNotifier),
\* "ok" or "fail" (what recordStoreGoingToUpdateInPlace returns)
UpdateRecord(loc, data, notifier, failAt) ==
    /\ CanMutate /\ InTxnBudget
    /\ IF recordFor(records, loc).status # "OK"
       THEN /\ mode' = IF recordFor(records, loc).status = "fatal" THEN "fatal" ELSE mode
            /\ last' = Return("update", recordFor(records, loc).status, loc, data)
            /\ UNCHANGED <<records, dataSize, journal>>
       ELSE LET oldRecord == recordFor(records, loc).rec
                oldLen == oldRecord.size
                len == Len(data)
            IN IF cappedGrowth(len, oldLen)
               THEN /\ last' = Return("update", "CappedGrowthNotAllowed", loc, data)
                    /\ UNCHANGED <<records, dataSize, journal, mode>>
               ELSE IF callbackStatusNotOK(notifier)
               THEN /\ last' = [Return("update", "NotifierFailed", loc, data)
                                  EXCEPT !.notified = TRUE, !.verdict = notifier]
                    /\ UNCHANGED <<records, dataSize, journal, mode>>
               ELSE LET T1 == [Work EXCEPT
                                 !.journal = Append(@, RemoveChange(loc, oldRecord)),
                                 !.dataSize = @ + len - oldLen,
                                 !.records = Put(@, loc, InMemoryRecord(data))]
                    IN Finish(cappedDeleteAsNeeded(T1, failAt, 0),
                              [Return("update", "OK", loc, data)
                                 EXCEPT !.notified = notifier # "none",
                                        !.verdict = notifier])
    /\ UNCHANGED <<nextId, isOplog, store, cursor, snapshot, accepted, born>>

\* The memcpy of one DamageEvent onto root
ApplyDamage(root, e) ==
    [i \in 1..Len(root) |->
        IF i - 1 >= e.targetOffset /\ i - 1 < e.targetOffset + e.size
        THEN DamageSource[i - e.targetOffset + e.sourceOffset]
        ELSE root[i]]

\* The loop over the DamageVector, in list order
RECURSIVE ApplyDamages(_, _)
ApplyDamages(root, damages) ==
    IF damages = <<>> THEN root
    ELSE ApplyDamages(ApplyDamage(root, Head(damages)), Tail(damages))

\* The record of loc that eviction journaled shares its bytes with newRecord,
\* which the damages are then written to.
SharePatched(jrnl, from, loc, rec) ==
    [i \in 1..Len(jrnl) |->
        IF i > from /\ jrnl[i].kind = "Remove" /\ jrnl[i].loc = loc
        THEN [jrnl[i] EXCEPT !.rec = rec] ELSE jrnl[i]]

\* InMemoryRecordStore::updateWithDamages. When eviction removed loc itself,
\* oldRecord dangles and the final assignment writes through it: the write is
\* lost (ub = "lost") or the process dies (ub = "crash"). When loc is still
\* in the table nothing dangles and there is the one outcome.
UpdateWithDamages(loc, damages, failAt, ub) ==
    /\ CanMutate /\ InTxnBudget
    /\ IF recordFor(records, loc).status # "OK"
       THEN /\ mode' = IF recordFor(records, loc).status = "fatal" THEN "fatal" ELSE mode
            /\ last' = Return("patch", recordFor(records, loc).status, loc, <<>>)
            /\ UNCHANGED <<records, dataSize, journal>>
       ELSE LET oldRecord == recordFor(records, loc).rec
                newRecord == InMemoryRecord(oldRecord.data)
                T1 == [Work EXCEPT
                         !.journal = Append(@, RemoveChange(loc, oldRecord)),
                         !.records = Put(@, loc, newRecord)]
                T2 == cappedDeleteAsNeeded(T1, failAt, 0)
                patched == [size |-> newRecord.size,
                            data |-> ApplyDamages(newRecord.data, damages)]
            IN IF T2.status # "OK"
               THEN Finish(T2, Return("patch", "OK", loc, <<>>))
               ELSE IF Find(T2.records, loc) # EndIt
               THEN /\ ub = "lost"
                    /\ Finish([T2 EXCEPT !.records = Put(@, loc, patched)],
                              Return("patch", "OK", loc, patched.data))
               ELSE IF ub = "lost"
               THEN Finish([T2 EXCEPT !.journal =
                                 SharePatched(@, Len(T1.journal), loc, patched)],
                           Return("patch", "OK", loc, patched.data))
               ELSE /\ mode' = "crashed"
                    /\ last' = [Return("patch", "crashed", loc, <<>>)
                                  EXCEPT !.hooks = T2.hooks]
                    /\ records' = T2.records
                    /\ dataSize' = T2.dataSize
                    /\ journal' = T2.journal
    /\ UNCHANGED <<nextId, isOplog, store, cursor, snapshot, accepted, born>>

\* The records temp_cappedTruncateAfter removes, lowest first
RECURSIVE EraseFrom(_, _)
EraseFrom(T, it) ==
    IF it = EndIt THEN T
    ELSE EraseFrom(deleteRecord(T, it), Succ(T.records, it))

\* InMemoryRecordStore::temp_cappedTruncateAfter
CappedTruncateAfter(end, inclusive) ==
    /\ CanMutate /\ InTxnBudget
    /\ LET it == IF inclusive THEN LowerBound(records, end) ELSE UpperBound(records, end)
       IN Finish(EraseFrom(Work, it), Return("truncateAfter", "OK", end, <<>>))
    /\ UNCHANGED <<nextId, isOplog, store, cursor, snapshot, accepted, born>>

\* InMemoryRecordStore::truncate
Truncate ==
    /\ CanMutate /\ InTxnBudget
    /\ journal' = Append(journal, TruncateChange(records, dataSize))
    /\ records' = EmptyRecords
    /\ dataSize' = 0
    /\ last' = Return("truncate", "OK", NullId, <<>>)
    /\ UNCHANGED <<nextId, isOplog, store, mode, cursor, snapshot, accepted, born>>

\* Reads leave the table, the journal and the cursor alone.
ReadFrame ==
    UNCHANGED <<records, dataSize, nextId, isOplog, store, journal, cursor, snapshot,
                accepted, born>>

\* InMemoryRecordStore::findRecord as a call
FindRecord(loc) ==
    /\ mode = "active"
    /\ LET r == findRecord(records, loc)
       IN last' = Return("find", IF r.found THEN "true" ELSE "false", loc, r.data)
    /\ UNCHANGED mode
    /\ ReadFrame

\* InMemoryRecordStore::dataFor
DataFor(loc) ==
    /\ mode = "active"
    /\ LET r == recordFor(records, loc)
       IN /\ mode' = IF r.status = "fatal" THEN "fatal" ELSE mode
          /\ last' = Return("dataFor", r.status, loc, r.rec.data)
    /\ ReadFrame

\* InMemoryRecordStore::oplogStartHack as a call. Where the code decrements
\* begin() and reads through the result, the process dies (ub = "crash") or
\* the call returns whatever identifier is read there (ub = "value", read).
OplogStartHack(startingPosition, ub, read) ==
    /\ mode = "active"
    /\ LET r == oplogStartHack(records, isOplog, startingPosition)
       IN IF r.status # "undefined"
          THEN /\ ub = "value" /\ read = NullId
               /\ last' = Return("oplogStartHack", r.status, r.loc, <<startingPosition>>)
               /\ UNCHANGED mode
          ELSE IF ub = "crash"
          THEN /\ read = NullId
               /\ mode' = "crashed"
               /\ last' = Return("oplogStartHack", "crashed", NullId, <<startingPosition>>)
          ELSE /\ last' = Return("oplogStartHack", "OK", read, <<startingPosition>>)
               /\ UNCHANGED mode
    /\ ReadFrame

\* The constructor that makes a Data of its own for every handle
OpenHandleOwnData(handle) ==
    /\ mode = "active"
    /\ store' = handle
    /\ records' = EmptyRecords /\ dataSize' = 0 /\ nextId' = FirstId
    /\ last' = Return("open", "OK", NullId, <<>>)
    /\ UNCHANGED <<isOplog, journal, mode, cursor, snapshot, accepted, born>>

\* The constructor on a Data that exists (*dataInOut is set): another handle
\* on the same table, with its own capped settings and callback.
OpenHandle(handle) ==
    /\ mode = "active"
    /\ store' = handle
    /\ last' = Return("open", "OK", NullId, <<>>)
    /\ UNCHANGED <<records, dataSize, nextId, isOplog, journal, mode, cursor, snapshot,
                   accepted, born>>

\* RecoveryUnit commit: every registered change's commit(), then the changes
\* are dropped and the next transaction starts
Commit ==
    /\ CanMutate
    /\ journal # <<>>
    /\ LET D == CommitAll(journal, [records |-> records, dataSize |-> dataSize])
       IN /\ records' = D.records
          /\ dataSize' = D.dataSize
          /\ snapshot' = D
    /\ journal' = <<>>
    /\ last' = Return("commit", "OK", NullId, <<>>)
    /\ UNCHANGED <<nextId, isOplog, store, mode, cursor, accepted, born>>

\* RecoveryUnit abort: the changes' rollback(), newest first, one per step
Rollback ==
    /\ \/ CanMutate
       \/ mode = "aborting"
    /\ journal # <<>>
    /\ LET c == journal[Len(journal)]
           D == ChangeRollback(c, [records |-> records, dataSize |-> dataSize])
       IN /\ records' = D.records
          /\ dataSize' = D.dataSize
    /\ journal' = SubSeq(journal, 1, Len(journal) - 1)
    /\ mode' = IF Len(journal) = 1 THEN "active" ELSE "aborting"
    /\ last' = Return("rollback", "OK", NullId, <<>>)
    /\ accepted' = IF journal[Len(journal)].kind = "Insert"
                       /\ journal[Len(journal)].loc = accepted
                    THEN NullId ELSE accepted
    /\ UNCHANGED <<nextId, isOplog, store, cursor, snapshot, born>>

\* ---------------------------------------------------------------- cursors
\* A cursor object. it: the forward cursor's iterator, or the base of the
\* reverse cursor's reverse_iterator (which points at the element before its
\* base).  saved: the caller has saved the cursor and not yet restored it.
\* op, ret, ok: the last call, the identifier it returned (NullId: none) and
\* what restore returned; arg: the identifier the last seekExact was given.
NoCursor == [open |-> FALSE, forward |-> TRUE, it |-> EndIt, needFirstSeek |-> TRUE,
             lastMoveWasRestore |-> FALSE, savedId |-> NullId, isCapped |-> FALSE,
             saved |-> FALSE, op |-> "none", ret |-> NullId, ok |-> TRUE,
             arg |-> NullId, seen |-> NullId]

\* records.rend(): the reverse_iterator whose base is begin()
REnd(recs) == Begin(recs)
\* records.rbegin(): the reverse_iterator whose base is end()
RBegin(recs) == EndIt
\* *rit: the element before the base
RDeref(recs, rit) == Prev(recs, rit)
\* The record a call returns: none at the end, else the identifier
Returned(it) == IF it = EndIt THEN NullId ELSE it

\* Cursor::next that steps after a restore that moved and not otherwise
CursorNextFlagInverted(c, recs) ==
    LET it == IF c.needFirstSeek THEN Begin(recs)
              ELSE IF c.lastMoveWasRestore /\ c.it # EndIt THEN UpperBound(recs, c.it)
              ELSE c.it
    IN [c EXCEPT !.needFirstSeek = FALSE, !.lastMoveWasRestore = FALSE, !.it = it,
                 !.op = "next", !.ret = IF it = EndIt THEN NullId ELSE it]

\* Cursor::next
CursorNext(c, recs) ==
    LET it == IF c.needFirstSeek THEN Begin(recs)
              ELSE IF ~c.lastMoveWasRestore /\ c.it # EndIt THEN Succ(recs, c.it)
              ELSE c.it
    IN [c EXCEPT !.needFirstSeek = FALSE, !.lastMoveWasRestore = FALSE, !.it = it,
                 !.op = "next", !.ret = Returned(it)]

\* Cursor::seekExact
CursorSeekExact(c, recs, id) ==
    LET it == Find(recs, id)
    IN [c EXCEPT !.lastMoveWasRestore = FALSE, !.needFirstSeek = FALSE, !.it = it,
                 !.op = "seekExact", !.ret = Returned(it)]

\* Cursor::save that records the position whatever the flags are
CursorSaveAlways(c, recs) ==
    [c EXCEPT !.savedId = IF c.it = EndIt THEN NullId ELSE c.it]

\* Cursor::save
CursorSave(c, recs) ==
    IF ~c.needFirstSeek /\ ~c.lastMoveWasRestore
    THEN [c EXCEPT !.savedId = IF c.it = EndIt THEN NullId ELSE c.it]
    ELSE c

\* Cursor::saveUnpositioned and ReverseCursor::saveUnpositioned
CursorSaveUnpositioned(c) == [c EXCEPT !.savedId = NullId]

\* Cursor::restore that fails on any store when the saved record is gone
CursorRestoreAlwaysDies(c, recs) ==
    IF c.savedId = NullId
    THEN [c EXCEPT !.it = EndIt, !.ok = TRUE]
    ELSE LET it == LowerBound(recs, c.savedId)
             moved == it = EndIt \/ it # c.savedId
         IN [c EXCEPT !.it = it, !.lastMoveWasRestore = moved, !.ok = ~moved]

\* Cursor::restore that sets lastMoveWasRestore whenever it has looked up
CursorRestoreFlagAlways(c, recs) ==
    IF c.savedId = NullId
    THEN [c EXCEPT !.it = EndIt, !.ok = TRUE]
    ELSE LET it == LowerBound(recs, c.savedId)
             moved == it = EndIt \/ it # c.savedId
         IN [c EXCEPT !.it = it, !.lastMoveWasRestore = TRUE,
                      !.ok = ~(c.isCapped /\ moved)]

\* Cursor::restore without the test for a null _savedId
CursorRestoreNullLowerBound(c, recs) ==
    LET it == LowerBound(recs, c.savedId)
        moved == it = EndIt \/ it # c.savedId
    IN [c EXCEPT !.it = it, !.lastMoveWasRestore = moved,
                 !.ok = ~(c.isCapped /\ moved)]

\* Cursor::restore
CursorRestore(c, recs) ==
    IF c.savedId = NullId
    THEN [c EXCEPT !.it = EndIt, !.ok = TRUE]
    ELSE LET it == LowerBound(recs, c.savedId)
             moved == it = EndIt \/ it # c.savedId
         IN [c EXCEPT !.it = it, !.lastMoveWasRestore = moved,
                      !.ok = ~(c.isCapped /\ moved)]

\* ReverseCursor::next whose first seek goes to rend() for rbegin()
ReverseCursorNextFirstAtREnd(c, recs) ==
    LET it == IF c.needFirstSeek THEN REnd(recs)
              ELSE IF ~c.lastMoveWasRestore /\ c.it # REnd(recs) THEN Prev(recs, c.it)
              ELSE c.it
    IN [c EXCEPT !.needFirstSeek = FALSE, !.lastMoveWasRestore = FALSE, !.it = it,
                 !.op = "next",
                 !.ret = IF it = REnd(recs) THEN NullId ELSE RDeref(recs, it)]

\* ReverseCursor::next
ReverseCursorNext(c, recs) ==
    LET it == IF c.needFirstSeek THEN RBegin(recs)
              ELSE IF ~c.lastMoveWasRestore /\ c.it # REnd(recs) THEN Prev(recs, c.it)
              ELSE c.it
    IN [c EXCEPT !.needFirstSeek = FALSE, !.lastMoveWasRestore = FALSE, !.it = it,
                 !.op = "next",
                 !.ret = IF it = REnd(recs) THEN NullId ELSE RDeref(recs, it)]

\* ReverseCursor::seekExact without the ++forwardIt
ReverseCursorSeekExactNoIncrement(c, recs, id) ==
    LET forwardIt == Find(recs, id)
        it == IF forwardIt = EndIt THEN REnd(recs) ELSE forwardIt
    IN [c EXCEPT !.lastMoveWasRestore = FALSE, !.needFirstSeek = FALSE, !.it = it,
                 !.op = "seekExact",
                 !.ret = IF forwardIt = EndIt \/ it = REnd(recs) THEN NullId
                         ELSE RDeref(recs, it)]

\* ReverseCursor::seekExact
ReverseCursorSeekExact(c, recs, id) ==
    LET forwardIt == Find(recs, id)
        it == IF forwardIt = EndIt THEN REnd(recs) ELSE Succ(recs, forwardIt)
    IN [c EXCEPT !.lastMoveWasRestore = FALSE, !.needFirstSeek = FALSE, !.it = it,
                 !.op = "seekExact",
                 !.ret = IF forwardIt = EndIt THEN NullId ELSE RDeref(recs, it)]

\* ReverseCursor::save
ReverseCursorSave(c, recs) ==
    IF ~c.needFirstSeek /\ ~c.lastMoveWasRestore
    THEN [c EXCEPT !.savedId = IF c.it = REnd(recs) THEN NullId ELSE RDeref(recs, c.it)]
    ELSE c

\* ReverseCursor::restore with lower_bound for upper_bound
ReverseCursorRestoreLowerBound(c, recs) ==
    IF c.savedId = NullId
    THEN [c EXCEPT !.it = REnd(recs), !.ok = TRUE]
    ELSE LET it == LowerBound(recs, c.savedId)
             moved == it = REnd(recs) \/ RDeref(recs, it) # c.savedId
         IN [c EXCEPT !.it = it, !.lastMoveWasRestore = moved,
                      !.ok = ~(c.isCapped /\ moved)]

\* ReverseCursor::restore
ReverseCursorRestore(c, recs) ==
    IF c.savedId = NullId
    THEN [c EXCEPT !.it = REnd(recs), !.ok = TRUE]
    ELSE LET it == UpperBound(recs, c.savedId)
             moved == it = REnd(recs) \/ RDeref(recs, it) # c.savedId
         IN [c EXCEPT !.it = it, !.lastMoveWasRestore = moved,
                      !.ok = ~(c.isCapped /\ moved)]

\* The record the cursor points at (NullId at either end); a cursor that was
\* never positioned points nowhere
Position(c, recs) ==
    IF c.forward THEN Returned(c.it)
    ELSE IF c.it = REnd(recs) THEN NullId ELSE RDeref(recs, c.it)

CursorFrame ==
    UNCHANGED <<records, dataSize, nextId, isOplog, store, journal, mode, last,
                snapshot, accepted, born>>
InUse == mode = "active" /\ cursor.open /\ ~cursor.saved

\* InMemoryRecordStore::getCursor
GetCursor(forward) ==
    /\ mode = "active"
    /\ cursor' = [NoCursor EXCEPT !.open = TRUE, !.forward = forward,
                                  !.isCapped = store.isCapped]
    /\ CursorFrame

Advance ==
    /\ InUse
    /\ cursor' = [(IF cursor.forward THEN CursorNext(cursor, records)
                   ELSE ReverseCursorNext(cursor, records))
                  EXCEPT !.seen = IF cursor.forward
                                  THEN (IF CursorNext(cursor, records).ret # NullId
                                        THEN CursorNext(cursor, records).ret ELSE @)
                                  ELSE (IF ReverseCursorNext(cursor, records).ret # NullId
                                        THEN ReverseCursorNext(cursor, records).ret ELSE @)]
    /\ CursorFrame

SeekExact(id) ==
    /\ InUse
    /\ cursor' = [(IF cursor.forward THEN CursorSeekExact(cursor, records, id)
                   ELSE ReverseCursorSeekExact(cursor, records, id))
                  EXCEPT !.arg = id]
    /\ CursorFrame

Save ==
    /\ InUse
    /\ cursor' = [(IF cursor.forward THEN CursorSave(cursor, records)
                   ELSE ReverseCursorSave(cursor, records))
                  EXCEPT !.saved = TRUE, !.op = "save"]
    /\ CursorFrame

SaveUnpositioned ==
    /\ InUse
    /\ cursor' = [CursorSaveUnpositioned(cursor) EXCEPT !.saved = TRUE,
                                                        !.op = "saveUnpositioned"]
    /\ CursorFrame

Restore ==
    /\ mode = "active" /\ cursor.open /\ cursor.saved
    /\ cursor' = [(IF cursor.forward THEN CursorRestore(cursor, records)
                   ELSE ReverseCursorRestore(cursor, records))
                  EXCEPT !.saved = FALSE, !.op = "restore"]
    /\ CursorFrame

\* ------------------------------------------------------------------ Init
\* The constructor's invariants: capped stores have a positive byte ceiling and
\* a positive or unbounded document ceiling; others have both unbounded.
Store(capped, maxSize, maxDocs, callback) ==
    [isCapped |-> capped, cappedMaxSize |-> maxSize, cappedMaxDocs |-> maxDocs,
     hasCallback |-> callback]
Plain == Store(FALSE, Unbounded, Unbounded, FALSE)
\* evicts by bytes, with a delete callback
BySize == Store(TRUE, MaxLen + 1, Unbounded, TRUE)
\* evicts by count, no delete callback
ByCount == Store(TRUE, MaxId * MaxLen, 2, FALSE)
\* too small for the longest payloads
Tight == Store(TRUE, MaxLen - 1, 2, TRUE)
\* <<the handle, Data::isOplog>>
Configs == { <<Plain, FALSE>>, <<BySize, FALSE>>, <<ByCount, FALSE>>, <<Tight, FALSE>> }
OplogConfigs == { <<BySize, TRUE>>, <<Tight, TRUE>> }
CursorConfigs == { <<Plain, FALSE>>, <<ByCount, FALSE>> }

\* A freshly constructed table behind a handle of one of the configurations.
InitWith(configs) ==
    /\ records = EmptyRecords
    /\ dataSize = 0
    /\ nextId = FirstId
    /\ \E c \in configs : store = c[1] /\ isOplog = c[2]
    /\ journal = <<>>
    /\ mode = "active"
    /\ cursor = NoCursor
    /\ last = Return("none", "OK", NullId, <<>>)
    /\ snapshot = [records |-> EmptyRecords, dataSize |-> 0]
    /\ accepted = NullId
    /\ born = <<>>

Init == InitWith(Configs)
InitOplog == InitWith(OplogConfigs)
InitCursor == InitWith(CursorConfigs)

HookFailAts == IF store.hasCallback THEN FailAts ELSE {0}
Outcomes == IF store.isCapped THEN {"lost", "crash"} ELSE {"lost"}

Next ==
    \/ \E data \in (IF isOplog THEN Payloads ELSE PlainPayloads), failAt \in HookFailAts :
         InsertRecord(data, failAt)
    \/ \E loc \in Ids : DeleteRecord(loc)
    \/ \E loc \in Ids, data \in UpdatePayloads, notifier \in Notifiers, failAt \in HookFailAts :
         UpdateRecord(loc, data, notifier, failAt)
    \/ \E loc \in Ids, failAt \in HookFailAts, ub \in Outcomes :
         \E damages \in DamageVectors(IF loc \in Keys(records) THEN records[loc].size ELSE 0,
                                      MaxDamages) :
            UpdateWithDamages(loc, damages, failAt, ub)
    \/ Truncate
    \/ \E end \in Ids, inclusive \in BOOLEAN : CappedTruncateAfter(end, inclusive)
    \/ Commit
    \/ Rollback

\* The store with one cursor open on it: writers insert and delete between a
\* save and the restore that follows.
NextCursor ==
    \/ \E failAt \in HookFailAts : InsertRecord(<<1>>, failAt)
    \/ \E loc \in Ids : DeleteRecord(loc)
    \/ Truncate
    \/ Commit
    \/ Rollback
    \/ \E forward \in BOOLEAN : GetCursor(forward)
    \/ Advance
    \/ \E id \in Ids : SeekExact(id)
    \/ Save
    \/ SaveUnpositioned
    \/ Restore

\* The store with its reads, on a generic capped table and on a log-typed one.
ReadConfigs == { <<ByCount, FALSE>>, <<BySize, TRUE>> }
InitRead == InitWith(ReadConfigs)
\* What the dereference of the decremented begin() may read.
Garbage == 0..MaxId

NextRead ==
    \/ \E data \in (IF isOplog THEN Payloads ELSE PlainPayloads), failAt \in HookFailAts :
         InsertRecord(data, failAt)
    \/ \E loc \in Ids : DeleteRecord(loc)
    \/ \E loc \in Ids, data \in UpdatePayloads : UpdateRecord(loc, data, "none", 0)
    \/ \E loc \in Ids : UpdateWithDamages(loc, <<>>, 0, "lost")
    \/ Commit
    \/ Rollback
    \/ \E loc \in Ids : FindRecord(loc)
    \/ \E loc \in Ids : DataFor(loc)
    \/ \E startingPosition \in Garbage, ub \in {"crash", "value"}, read \in Garbage :
         OplogStartHack(startingPosition, ub, read)

\* One table behind handles that are opened one after the other, each with
\* its own settings.
Handles == { Plain, BySize, ByCount, Tight }
NextHandles ==
    \/ \E data \in PlainPayloads, failAt \in HookFailAts : InsertRecord(data, failAt)
    \/ \E loc \in Ids : DeleteRecord(loc)
    \/ Truncate
    \/ Commit
    \/ Rollback
    \/ \E handle \in Handles : OpenHandle(handle)

\* One table behind a capped and a plain handle, with a cursor made by one
\* of them and the reads of both.
SharedConfigs == { <<Plain, FALSE>>, <<ByCount, FALSE>> }
InitShared == InitWith(SharedConfigs)
NextShared ==
    \/ \E failAt \in HookFailAts : InsertRecord(<<1>>, failAt)
    \/ \E loc \in Ids : DeleteRecord(loc)
    \/ Commit
    \/ Rollback
    \/ \E handle \in { c[1] : c \in SharedConfigs } : OpenHandle(handle)
    \/ \E loc \in Ids : FindRecord(loc)
    \/ \E forward \in BOOLEAN : GetCursor(forward)
    \/ Advance
    \/ Save
    \/ Restore

\* A table that is not capped, generic or log-typed, under one cursor that
\* is only advanced, saved and restored, with writers between a save and
\* the restore that follows.
ScanConfigs == { <<Plain, FALSE>>, <<Plain, TRUE>> }
InitScan == InitWith(ScanConfigs)
NextScan ==
    \/ \E data \in (IF isOplog THEN Payloads ELSE {<<1>>}) : InsertRecord(data, 0)
    \/ \E loc \in Ids : DeleteRecord(loc)
    \/ \E loc \in Ids : UpdateRecord(loc, <<2>>, "none", 0)
    \/ Truncate
    \/ Commit
    \/ Rollback
    \/ \E forward \in BOOLEAN : GetCursor(forward)
    \/ Advance
    \/ Save
    \/ Restore

Spec == Init /\ [][Next]_vars
SpecScan == InitScan /\ [][NextScan]_vars
SpecShared == InitShared /\ [][NextShared]_vars
SpecRead == InitRead /\ [][NextRead]_vars
SpecHandles == Init /\ [][NextHandles]_vars
SpecOplog == InitOplog /\ [][Next]_vars
SpecCursor == InitCursor /\ [][NextCursor]_vars

\* ------------------------------------------------------------ properties
\* The step is a call of op (every store call reports in last; a call that
\* changes nothing and reports what the previous call reported is a stutter).
Called(op) == last'.op = op /\ (last' # last \/ journal' # journal)

TableIs(D) == records = D.records /\ dataSize = D.dataSize

\* C1: once an abort has replayed every registered change, newest first, the
\* table's (records, dataSize) equal the snapshot taken when the transaction
\* began, whatever calls the transaction made.
C1_RollbackRestores ==
    (last.op = "rollback" /\ mode = "active") => TableIs(snapshot)

\* an abort has finished over a table that held records when the transaction
\* began, on a capped store (its inserts evict)
C1_Witness ==
    /\ last.op = "rollback" /\ mode = "active" /\ journal = <<>>
    /\ store.isCapped
    /\ NumRecords(snapshot.records) >= 2

\* C2: committing the registered changes leaves records and dataSize as the
\* calls themselves left them: commit of every variant changes nothing.
C2_CommitNoOp ==
    [][(Called("commit") /\ journal # <<>>)
         => (records' = records /\ dataSize' = dataSize /\ journal' = <<>>)]_vars

\* a commit has run over a table holding records
C2_Witness == last.op = "commit" /\ NumRecords(records) >= 2 /\ journal = <<>>

\* C3: in every state (after every call and after every undo of an abort)
\* dataSize is the sum of the sizes of the records in the table.
C3_SizeAccounting == dataSize = SumSizes(records)

\* an abort is under way, one undo applied, over a table that holds bytes
C3_Witness ==
    last.op = "rollback" /\ mode = "aborting" /\ dataSize >= 2 /\ NumRecords(records) >= 2

\* The table is over one of the handle's ceilings.
OverLimit(recs) ==
    /\ store.isCapped
    /\ \/ SumSizes(recs) > store.cappedMaxSize
       \/ store.cappedMaxDocs # Unbounded /\ NumRecords(recs) > store.cappedMaxDocs

\* C4: on a capped store, after an insert or update (or in-place patch) that
\* returned OK, dataSize <= cappedMaxSize and, when cappedMaxDocs is bounded,
\* the number of records <= cappedMaxDocs.
C4_CappedBounds ==
    (store.isCapped /\ last.op \in {"insert", "update", "patch"} /\ last.status = "OK")
      => /\ dataSize <= store.cappedMaxSize
         /\ store.cappedMaxDocs # Unbounded => NumRecords(records) <= store.cappedMaxDocs

\* an insert on a capped store returned OK after evicting a record
C4_Witness ==
    /\ store.isCapped /\ last.op = "insert" /\ last.status = "OK"
    /\ journal # <<>> /\ journal[Len(journal)].kind = "Remove"

\* The table as the call left it before eviction ran: loc holds the payload
\* the call wrote.
BeforeEviction == Put(records, last'.loc, InMemoryRecord(last'.data))
\* The sets of identifiers that are prefixes of the table in identifier order.
Prefixes(recs) == { { k \in Keys(recs) : k < b } : b \in Keys(recs) } \cup { Keys(recs) }
Without(recs, S) == [k \in Keys(recs) \ S |-> recs[k]]

\* C5: the records an insert, update or patch that returned OK evicted are
\* the shortest prefix, in identifier order, of the table as the call left it
\* whose removal brings the table within both ceilings; every other record is
\* left as it was.
C5_OldestFirstMinimal ==
    [][(Called("insert") \/ Called("update") \/ Called("patch")) /\ last'.status = "OK"
         => LET mid == BeforeEviction
                evicted == Keys(mid) \ Keys(records')
            IN /\ Keys(records') \subseteq Keys(mid)
               /\ records' = Without(mid, evicted)
               /\ evicted \in Prefixes(mid)
               /\ ~OverLimit(records')
               /\ \A P \in Prefixes(mid) :
                     (P \subseteq evicted /\ P # evicted) => OverLimit(Without(mid, P))]_vars

\* cappedMaxDocs = 2 and the inserts 1, 2, 3 in order leave exactly {2, 3}
C5_Witness ==
    /\ store.isCapped /\ store.cappedMaxDocs = 2
    /\ last.op = "insert" /\ last.status = "OK" /\ last.loc = 3
    /\ Keys(records) = {2, 3}
    /\ Len(journal) >= 2 /\ journal[Len(journal)] = RemoveChange(1, InMemoryRecord(<<1>>))

\* Where restore must land for the saved identifier K: the smallest identifier
\* >= K (forward) or the largest <= K (reverse), NullId when there is none.
Landing(forward, recs, K) ==
    LET S == IF forward THEN { k \in Keys(recs) : k >= K } ELSE { k \in Keys(recs) : k <= K }
    IN IF S = {} THEN NullId ELSE IF forward THEN MinKey(S) ELSE MaxKey(S)
\* The record that follows K in the iteration direction, NullId when none does.
Neighbour(forward, recs, K) ==
    LET S == IF forward THEN { k \in Keys(recs) : k > K } ELSE { k \in Keys(recs) : k < K }
    IN IF S = {} THEN NullId ELSE IF forward THEN MinKey(S) ELSE MaxKey(S)

Restored == cursor.open /\ cursor.op = "restore" /\ cursor.savedId # NullId

\* C6: a restore with a saved identifier K leaves a forward cursor at the
\* smallest identifier >= K and a reverse cursor at the largest <= K (at the
\* end when there is none), with lastMoveWasRestore true exactly when K is
\* absent or the cursor is at the end; the next advance then returns the
\* landing record without stepping (so after K was deleted it returns K's
\* successor in the iteration direction).
C6_RestoreLanding ==
    [][/\ Restored'
          => /\ Position(cursor', records') = Landing(cursor'.forward, records', cursor'.savedId)
             /\ cursor'.lastMoveWasRestore
                  = (cursor'.savedId \notin Keys(records')
                       \/ Position(cursor', records') = NullId)
       /\ (Restored /\ cursor.lastMoveWasRestore /\ cursor'.open /\ cursor'.op = "next")
          => /\ cursor'.ret = Position(cursor, records)
             /\ Position(cursor', records') = Position(cursor, records)
             /\ cursor.savedId \notin Keys(records)
                  => cursor'.ret = Neighbour(cursor.forward, records, cursor.savedId)]_vars

\* a reverse cursor restored after its saved record was deleted and landed on
\* a smaller identifier
C6_Witness ==
    /\ Restored /\ ~cursor.forward /\ cursor.lastMoveWasRestore
    /\ cursor.savedId \notin Keys(records)
    /\ Position(cursor, records) # NullId /\ Position(cursor, records) < cursor.savedId

\* C7: restore returns false exactly when the store is capped, the saved
\* identifier is not none and it is no longer in the table.
C7_RestoreReturn ==
    (cursor.open /\ cursor.op = "restore")
      => (~cursor.ok <=> (store.isCapped /\ cursor.savedId # NullId
                            /\ cursor.savedId \notin Keys(records)))

\* a restore on a capped store returned false
C7_Witness == cursor.open /\ cursor.op = "restore" /\ ~cursor.ok

\* C8: when the saved identifier K is still in the table at restore, restore
\* returns true with lastMoveWasRestore false and the cursor at K, and the next
\* advance returns K's neighbour in the iteration direction in the table as it
\* is then.
C8_ExactResume ==
    [][/\ (Restored' /\ cursor'.savedId \in Keys(records'))
          => /\ cursor'.ok /\ ~cursor'.lastMoveWasRestore
             /\ Position(cursor', records') = cursor'.savedId
       /\ (Restored /\ cursor.savedId \in Keys(records) /\ cursor'.open /\ cursor'.op = "next")
          => cursor'.ret = Neighbour(cursor.forward, records, cursor.savedId)]_vars

\* a forward cursor restored at its saved record after a record was inserted
\* behind it
C8_Witness ==
    /\ Restored /\ cursor.forward /\ cursor.savedId \in Keys(records)
    /\ journal # <<>> /\ journal[Len(journal)].kind = "Insert"
    /\ journal[Len(journal)].loc > cursor.savedId
    /\ journal[Len(journal)].loc \in Keys(records)

\* The payload passes insertRecord's size check.
Fits(data) == ~(store.isCapped /\ Len(data) > store.cappedMaxSize)
\* The identifier in the payload is not above the table's highest.
NotAbove(data) ==
    /\ extractKey(data).status = "OK"
    /\ Keys(records) # {}
    /\ extractKey(data).loc <= MaxKey(Keys(records))
Rejected(status) ==
    last'.status = status => (records' = records /\ dataSize' = dataSize /\ journal' = journal)

\* C9 as stated: a log-typed insert fails with OutOfOrder exactly when the
\* table is non-empty and the identifier in the payload is <= its highest.
C9_AsStated ==
    [][(isOplog /\ Called("insert"))
         => (last'.status = "OutOfOrder" <=> NotAbove(last'.data))]_vars

\* C9: a log-typed insert fails with OutOfOrder exactly when the payload
\* passes the size check, the table is non-empty and the identifier in the
\* payload is <= its highest; then, and when extraction fails, records,
\* dataSize and the journal are unchanged.
C9_LogAcceptance ==
    [][(isOplog /\ Called("insert"))
         => /\ last'.status = "OutOfOrder" <=> (Fits(last'.data) /\ NotAbove(last'.data))
            /\ Rejected("OutOfOrder")
            /\ Rejected("MalformedLogEntry")]_vars

\* an insert was refused as out of order on a table that holds records
C9_Witness ==
    isOplog /\ last.op = "insert" /\ last.status = "OutOfOrder" /\ Keys(records) # {}

Accepts == isOplog /\ Called("insert") /\ last'.status = "OK"

\* C10 as stated: every identifier a log-typed insert accepts is above the
\* one accepted before it (and not rolled back), whatever happened in between.
C10_AsStated == [][Accepts => last'.loc > accepted]_vars

\* C10: every identifier a log-typed insert accepts is above every identifier
\* in the table at that moment and its record survives the call's own
\* eviction, so it is above the identifier accepted before it whenever that
\* record is still in the table.
C10_MonotoneWhilePresent ==
    [][Accepts
         => /\ \A k \in Keys(records) : last'.loc > k
            /\ last'.loc \in Keys(records')
            /\ accepted' = last'.loc
            /\ accepted \in Keys(records) => last'.loc > accepted]_vars

\* an insert was accepted above an earlier accepted record that is still there
C10_Witness ==
    /\ isOplog /\ last.op = "insert" /\ last.status = "OK"
    /\ accepted = last.loc
    /\ \E k \in Keys(records) : k < accepted

\* The step is an insert on a generic table that was handed an identifier.
Allocates == ~isOplog /\ Called("insert") /\ last'.loc # NullId

\* C11: on a generic table every insert that gets an identifier gets one above
\* every identifier the table handed out before, through whichever handle and
\* whether or not the records inserted under them were since deleted, evicted,
\* truncated or rolled back; no step forgets an identifier handed out.
C11_AllocatorMonotone ==
    [][/\ Allocates => /\ \A k \in DOMAIN born : last'.loc > k
                       /\ last'.loc \in DOMAIN born'
       /\ DOMAIN born \subseteq DOMAIN born'
       /\ \A k \in Keys(records') : ~isOplog => k \in DOMAIN born']_vars

\* an insert through a handle that is not capped got identifier 3 and its
\* record is alone in the table: the records of 1 and 2 are gone
C11_Witness ==
    /\ ~isOplog /\ ~store.isCapped
    /\ last.op = "insert" /\ last.status = "OK" /\ last.loc = 3
    /\ Keys(records) = {3}
    /\ DOMAIN born = {1, 2, 3}

\* C12: on a capped store an insert of a payload longer than cappedMaxSize
\* returns ExceedsCapacity and no identifier; records, dataSize, nextId and the
\* journal are unchanged and aboutToDeleteCapped is not invoked.
C12_OversizedInsert ==
    [][(Called("insert") /\ ~Fits(last'.data))
         => /\ last'.status = "ExceedsCapacity"
            /\ last'.loc = NullId
            /\ records' = records /\ dataSize' = dataSize
            /\ nextId' = nextId
            /\ journal' = journal
            /\ last'.hooks = 0]_vars

\* an oversized insert was refused in a transaction that had changed the
\* table, which holds records eviction could have taken
C12_Witness ==
    /\ last.op = "insert" /\ last.status = "ExceedsCapacity"
    /\ store.isCapped /\ Len(last.data) > store.cappedMaxSize
    /\ Keys(records) # {} /\ journal # <<>>

\* The step is an update, of a record that is in the table, to a payload
\* longer than cappedMaxSize.
OversizedUpdate ==
    Called("update") /\ last'.loc \in Keys(records) /\ ~Fits(last'.data)
UpdateRefused ==
    /\ records' = records /\ dataSize' = dataSize /\ journal' = journal
    /\ last'.hooks = 0 /\ ~last'.notified

\* C13 as stated: on a capped store an update to a payload longer than
\* cappedMaxSize returns ExceedsCapacity, as the oversized insert does, and
\* changes nothing.
C13_AsStated ==
    [][OversizedUpdate => (last'.status = "ExceedsCapacity" /\ UpdateRefused)]_vars

\* C13: on a capped store whose records are no longer than cappedMaxSize an
\* update to a payload longer than cappedMaxSize is refused as growth, with
\* CappedGrowthNotAllowed, before the notifier and before any eviction, and
\* changes nothing.
C13_OversizedUpdate ==
    [][/\ store.isCapped
            => \A k \in Keys(records') : records'[k].size <= store.cappedMaxSize
       /\ OversizedUpdate
            => (last'.status = "CappedGrowthNotAllowed" /\ UpdateRefused)]_vars

\* an update to a payload longer than cappedMaxSize was refused
C13_Witness ==
    /\ last.op = "update" /\ last.status = "CappedGrowthNotAllowed"
    /\ store.isCapped /\ Len(last.data) > store.cappedMaxSize
    /\ last.loc \in Keys(records)

\* C14: on a capped store an update to a payload longer than the record is
\* returns CappedGrowthNotAllowed; records, dataSize and the journal are
\* unchanged, the notifier is not invoked and nothing is evicted. No record of
\* a capped store is ever larger than it was when inserted.
C14_NoGrowth ==
    [][/\ (Called("update") /\ store.isCapped /\ last'.loc \in Keys(records)
             /\ Len(last'.data) > records[last'.loc].size)
            => (last'.status = "CappedGrowthNotAllowed" /\ UpdateRefused)
       /\ store.isCapped
            => \A k \in Keys(records') : records'[k].size <= born'[k]]_vars

\* an update that fits under cappedMaxSize was refused because it would grow
\* a record back to the size it had before it was shrunk
C14_Witness ==
    /\ last.op = "update" /\ last.status = "CappedGrowthNotAllowed"
    /\ Fits(last.data)
    /\ last.loc \in Keys(records)
    /\ records[last.loc].size < born[last.loc]
    /\ Len(last.data) = born[last.loc]

\* An abort of the changes registered after the first n, newest first.
RECURSIVE UndoTo(_, _, _)
UndoTo(changes, n, D) ==
    IF Len(changes) <= n THEN D
    ELSE UndoTo(SubSeq(changes, 1, Len(changes) - 1), n,
                ChangeRollback(changes[Len(changes)], D))

\* The step is a call that changed the table and came back: an insert,
\* update or patch that returned (OK or with the hook's failure), a delete or
\* a truncate.
Wrote == (Called("insert") \/ Called("update") \/ Called("patch"))
            /\ last'.status \in {"OK", "CallbackFailed"} /\ last'.loc # NullId
Mutates == Wrote \/ ((Called("delete") \/ Called("truncate")) /\ last'.status = "OK")
\* The records the step's eviction removed.
Evicted == IF Wrote THEN (Keys(records) \cup {last'.loc}) \ Keys(records') ELSE {}
Registered == { i \in 1..Len(journal') : i > Len(journal) }

\* C15 as stated: every call that changes the table registers exactly one
\* change, eviction or not.
C15_AsStated == [][Mutates => Len(journal') = Len(journal) + 1]_vars

\* C15: every call that changes the table registers one change for what it
\* was asked to do (InsertChange for insert, RemoveChange of the record for
\* update, patch and delete, TruncateChange for truncate) and after it one
\* RemoveChange for each record its eviction removed, oldest first; the
\* changes registered before are left alone.
C15_JournalPerChange ==
    [][Mutates
         => /\ Len(journal') = Len(journal) + 1 + Cardinality(Evicted)
            /\ SubSeq(journal', 1, Len(journal)) = journal
            /\ LET own == journal'[Len(journal) + 1]
               IN /\ own.kind = CASE last'.op = "insert" -> "Insert"
                                  [] last'.op = "truncate" -> "Truncate"
                                  [] OTHER -> "Remove"
                  /\ own.loc = last'.loc
            /\ \A i \in Registered \ {Len(journal) + 1} :
                  /\ journal'[i].kind = "Remove"
                  /\ journal'[i].loc \in Evicted
                  /\ \A j \in Registered : (Len(journal) + 1 < j /\ j < i)
                                              => journal'[j].loc < journal'[i].loc]_vars

\* an insert evicted two records: three changes are registered for the call
C15_Witness ==
    /\ last.op = "insert" /\ last.status = "OK"
    /\ Len(journal) = 3
    /\ journal[1].kind = "Insert" /\ journal[1].loc = last.loc
    /\ journal[2].kind = "Remove" /\ journal[3].kind = "Remove"

\* C16: when aboutToDeleteCapped fails for the oldest record during the
\* eviction of an insert or update, the call reports the failure and stops
\* evicting: that record and the younger ones are as the call left them before
\* eviction (the inserted or updated payload included), the records the call
\* had evicted are gone, dataSize is the sum of the sizes, and each of those
\* changes has its own undo: undoing the changes the call registered, newest
\* first, gives the table as it was before the call.
C16_HookFailure ==
    [][((Called("insert") \/ Called("update")) /\ last'.status = "CallbackFailed")
         => LET mid == BeforeEviction
                evicted == Keys(mid) \ Keys(records')
            IN /\ evicted \in Prefixes(mid) /\ evicted # Keys(mid)
               /\ records' = Without(mid, evicted)
               /\ last'.hooks = Cardinality(evicted) + 1
               /\ OverLimit(records')
               /\ last'.op = "insert" => last'.loc \in Keys(records')
               /\ dataSize' = SumSizes(records')
               /\ Len(journal') = Len(journal) + 1 + Cardinality(evicted)
               /\ UndoTo(journal', Len(journal),
                         [records |-> records', dataSize |-> dataSize'])
                    = [records |-> records, dataSize |-> dataSize]]_vars

\* the hook let the oldest record go and failed for the second: the insert of
\* 3 left {2, 3}
C16_Witness ==
    /\ last.op = "insert" /\ last.status = "CallbackFailed" /\ last.hooks = 2
    /\ last.loc = 3 /\ Keys(records) = {2, 3}
    /\ Len(journal) = 2

\* The step is a call of op on an identifier that is not in the table.
Missing(op) == Called(op) /\ last'.loc \notin Keys(records)
TableUntouched == records' = records /\ dataSize' = dataSize /\ journal' = journal

\* C17: delete, update, patch and dataFor of an identifier that is not in
\* the table fail recordFor's invariant: the process is in its fatal state,
\* no status is returned, and records, dataSize and the journal are as they
\* were; findRecord of such an identifier returns false and changes nothing.
C17_MissingIsFatal ==
    [][/\ \A op \in {"delete", "update", "patch", "dataFor"} :
             Missing(op) => (mode' = "fatal" /\ last'.status = "fatal" /\ TableUntouched)
       /\ Missing("find")
             => (last'.status = "false" /\ mode' = mode /\ TableUntouched
                   /\ nextId' = nextId)]_vars

\* dataFor of a missing identifier ended a transaction that had changed a
\* table holding records
C17_Witness ==
    /\ mode = "fatal" /\ last.op = "dataFor" /\ last.status = "fatal"
    /\ last.loc \notin Keys(records)
    /\ Keys(records) # {} /\ journal # <<>>

\* C18: findRecord changes neither records, dataSize, nextId nor the journal;
\* findRecord of the identifier an insert just returned with OK gives the
\* payload inserted, and findRecord of the identifier just deleted gives false.
C18_RoundTrip ==
    [][Called("find")
         => /\ TableUntouched /\ nextId' = nextId /\ mode' = mode
            /\ (last.op = "insert" /\ last.status = "OK" /\ last'.loc = last.loc)
                 => (last'.status = "true" /\ last'.data = last.data)
            /\ (last.op = "delete" /\ last.status = "OK" /\ last'.loc = last.loc)
                 => (last'.status = "false" /\ last'.data = <<>>)
            /\ last'.status = "true"
                 => (last'.loc \in Keys(records)
                       /\ last'.data = records[last'.loc].data)]_vars

\* one transaction inserted a record and deleted it, and findRecord of its
\* identifier then returned false while the table holds its successor
C18_Witness ==
    /\ last.op = "find" /\ last.status = "false"
    /\ Len(journal) = 2
    /\ journal[1].kind = "Insert" /\ journal[2].kind = "Remove"
    /\ journal[2].loc = last.loc
    /\ journal[2].rec.size = MaxLen
    /\ \E k \in Keys(records) : k > last.loc

\* The table after the changes registered after the first n are undone.
Undone(changes, n, recs, size) ==
    UndoTo(changes, n, [records |-> recs, dataSize |-> size])

\* C19: truncate returns OK, leaves the table empty with dataSize 0 from the
\* moment its change is registered and leaves nextId alone; the change holds
\* the records and dataSize the table had. Its rollback puts them back, so an
\* abort that undoes the changes back to a truncate, newest first, leaves the
\* table as it was before that truncate, whatever was inserted after it.
C19_Truncate ==
    [][/\ Called("truncate")
            => /\ last'.status = "OK"
               /\ records' = EmptyRecords /\ dataSize' = 0
               /\ nextId' = nextId
               /\ Len(journal') = Len(journal) + 1
               /\ journal'[Len(journal')].kind = "Truncate"
               /\ journal'[Len(journal')].records = records
               /\ journal'[Len(journal')].dataSize = dataSize
               /\ Undone(journal', Len(journal), records', dataSize')
                    = [records |-> records, dataSize |-> dataSize]
       /\ \A i \in 1..Len(journal') :
             journal'[i].kind = "Truncate"
               => Undone(journal', i - 1, records', dataSize')
                    = [records |-> journal'[i].records, dataSize |-> journal'[i].dataSize]
       /\ (Called("rollback") /\ journal[Len(journal)].kind = "Truncate")
            => /\ records' = journal[Len(journal)].records
               /\ dataSize' = journal[Len(journal)].dataSize
               /\ nextId' = nextId]_vars

\* an abort has undone the insert made after a truncate of a table that held
\* records, and the truncate is next
C19_Witness ==
    /\ mode = "aborting" /\ last.op = "rollback"
    /\ Len(journal) = 1 /\ journal[1].kind = "Truncate"
    /\ NumRecords(journal[1].records) >= 2
    /\ records = EmptyRecords /\ nextId > FirstId

\* The identifiers of the table that are not above target.
AtOrBelow(target) == { k \in Keys(records) : k <= target }

\* C20: oplogStartHack changes nothing; on a table that is not log-typed it
\* returns none, on an empty log-typed table the null identifier, otherwise
\* the highest identifier that is not above the starting position, and the
\* lowest identifier of the table when the starting position (the null
\* identifier among them) precedes every record.
C20_AsStated ==
    [][Called("oplogStartHack")
         => LET target == last'.data[1]
            IN /\ TableUntouched /\ nextId' = nextId
               /\ IF ~isOplog THEN last'.status = "none"
                  ELSE /\ last'.status = "OK"
                       /\ last'.loc = IF Keys(records) = {} THEN NullId
                                      ELSE IF AtOrBelow(target) # {}
                                           THEN MaxKey(AtOrBelow(target))
                                      ELSE MinKey(Keys(records))]_vars

\* The step is a call of the cursor's op.
CursorCalled(op) == cursor'.open /\ cursor'.op = op /\ cursor' # cursor

\* C21: a handle constructed over a table that exists refers to that table:
\* records, dataSize, nextId and the changes registered so far are what the
\* other handle left, uncommitted changes included. findRecord through either
\* handle and advance of a cursor made by either read the table as the last
\* call left it, and once an abort has finished they read the table as it was
\* when the transaction began.
C21_EagerVisibility ==
    [][/\ Called("open")
            => (TableUntouched /\ nextId' = nextId /\ snapshot' = snapshot
                  /\ cursor' = cursor)
       /\ Called("find")
            => /\ last'.status = "true" <=> last'.loc \in Keys(records)
               /\ last'.loc \in Keys(records) => last'.data = records[last'.loc].data
       /\ CursorCalled("next")
            => /\ cursor'.ret = Position(cursor', records)
               /\ cursor'.ret # NullId => cursor'.ret \in Keys(records)
               /\ cursor.needFirstSeek
                    => cursor'.ret = IF Keys(records) = {} THEN NullId
                                     ELSE IF cursor.forward THEN MinKey(Keys(records))
                                     ELSE MaxKey(Keys(records))
       /\ (last'.op = "rollback" /\ mode' = "active")
            => (records' = snapshot'.records /\ dataSize' = snapshot'.dataSize)]_vars

\* a cursor made by the capped handle returned record 3, which the plain
\* handle inserted in a transaction that has not committed (the capped handle
\* keeps two records)
C21_Witness ==
    /\ cursor.open /\ cursor.isCapped /\ cursor.op = "next" /\ cursor.ret = 3
    /\ store = Plain
    /\ Keys(records) = {1, 2, 3}
    /\ journal = <<InsertChange(3)>>

\* The identifiers n successive calls of next return from cursor c on a
\* table that stays as it is.
RECURSIVE Scan(_, _, _)
Scan(c, recs, n) ==
    IF n = 0 THEN <<>>
    ELSE LET d == IF c.forward THEN CursorNext(c, recs) ELSE ReverseCursorNext(c, recs)
         IN <<d.ret>> \o Scan(d, recs, n - 1)
\* The cursor getCursor hands out.
Fresh(forward) == [NoCursor EXCEPT !.open = TRUE, !.forward = forward]
\* The identifiers of recs in ascending order.
RECURSIVE Ascending(_)
Ascending(S) == IF S = {} THEN <<>> ELSE <<MinKey(S)>> \o Ascending(S \ {MinKey(S)})
RECURSIVE Descending(_)
Descending(S) == IF S = {} THEN <<>> ELSE <<MaxKey(S)>> \o Descending(S \ {MaxKey(S)})

\* C22: on the table as it is, the calls of next on a new forward cursor
\* return the identifiers in ascending order, each once, and then none for
\* ever; a new reverse cursor returns them in descending order and then none.
\* Step by step: the first next returns the lowest (highest) identifier, a
\* next that follows a next returns the neighbour of the record returned
\* before, and a next that follows a next that returned none returns none
\* and leaves the cursor where it is.
C22_PlainIteration ==
    [][/\ Scan(Fresh(TRUE), records', NumRecords(records') + 2)
            = Ascending(Keys(records')) \o <<NullId, NullId>>
       /\ Scan(Fresh(FALSE), records', NumRecords(records') + 2)
            = Descending(Keys(records')) \o <<NullId, NullId>>
       /\ (CursorCalled("next") /\ cursor.op = "none")
            => cursor'.ret = IF Keys(records) = {} THEN NullId
                             ELSE IF cursor.forward THEN MinKey(Keys(records))
                             ELSE MaxKey(Keys(records))
       /\ (CursorCalled("next") /\ cursor.op = "next" /\ cursor.ret # NullId)
            => cursor'.ret = Neighbour(cursor.forward, records, cursor.ret)
       /\ (cursor.open /\ cursor.op = "next" /\ cursor.ret = NullId /\ cursor'.open
             /\ cursor'.op = "next")
            => cursor' = cursor]_vars

\* a reverse cursor has returned the three records of the table, the lowest
\* last
C22_Witness ==
    /\ cursor.open /\ ~cursor.forward /\ cursor.op = "next"
    /\ NumRecords(records) = 3 /\ cursor.ret = MinKey(Keys(records))
    /\ ~cursor.needFirstSeek /\ ~cursor.lastMoveWasRestore

\* C23: seekExact(id) returns id when it is in the table and none when it is
\* not, and clears needFirstSeek and lastMoveWasRestore either way. After a
\* seek that found id the next call of next returns id's neighbour in the
\* iteration direction; after one that did not the cursor is at the end: next
\* returns none and save records the null identifier.
C23_SeekExact ==
    [][/\ CursorCalled("seekExact")
            => /\ cursor'.ret = IF cursor'.arg \in Keys(records) THEN cursor'.arg ELSE NullId
               /\ Position(cursor', records) = cursor'.ret
               /\ ~cursor'.needFirstSeek /\ ~cursor'.lastMoveWasRestore
       /\ (cursor.open /\ cursor.op = "seekExact" /\ cursor'.open /\ cursor'.op = "next")
            => cursor'.ret = IF cursor.ret = NullId THEN NullId
                             ELSE Neighbour(cursor.forward, records, cursor.ret)
       /\ (cursor.open /\ cursor.op = "seekExact" /\ cursor.ret = NullId
             /\ cursor'.open /\ cursor'.op = "save")
            => cursor'.savedId = NullId]_vars

\* a reverse cursor found the record it sought between two others
C23_Witness ==
    /\ cursor.open /\ ~cursor.forward /\ cursor.op = "seekExact"
    /\ cursor.ret = cursor.arg /\ cursor.ret # NullId
    /\ \E k \in Keys(records) : k < cursor.ret
    /\ \E k \in Keys(records) : k > cursor.ret

\* C24: save leaves savedId as it is when the cursor was never positioned or
\* its last move was a restore that did not land on savedId, and otherwise
\* sets it to the identifier the cursor is at (null at the end);
\* saveUnpositioned sets it to null whatever the state; restore with a null
\* savedId puts the cursor at the end and returns true. None of the three
\* changes the table.
C24_SaveSemantics ==
    [][/\ CursorCalled("save")
            => cursor'.savedId
                 = IF cursor.needFirstSeek \/ cursor.lastMoveWasRestore THEN cursor.savedId
                   ELSE Position(cursor, records)
       /\ CursorCalled("saveUnpositioned") => cursor'.savedId = NullId
       /\ (CursorCalled("restore") /\ cursor.savedId = NullId)
            => /\ cursor'.ok
               /\ Position(cursor', records) = NullId
               /\ cursor'.it = (IF cursor.forward THEN EndIt ELSE REnd(records))
       /\ (CursorCalled("save") \/ CursorCalled("saveUnpositioned") \/ CursorCalled("restore"))
            => (TableUntouched /\ nextId' = nextId)]_vars

\* a save after a restore that landed past a deleted record left savedId at
\* the deleted identifier
C24_Witness ==
    /\ cursor.open /\ cursor.op = "save" /\ cursor.lastMoveWasRestore
    /\ cursor.savedId # NullId /\ cursor.savedId \notin Keys(records)
    /\ Position(cursor, records) # NullId

\* The payloads a patch of base can produce.
PatchedFrom(base) ==
    { ApplyDamages(base, damages) : damages \in DamageVectors(Len(base), MaxDamages) }

\* C25: updateWithDamages on an identifier in the table that returned OK
\* leaves at it a record of the size it had whose bytes are the old bytes
\* with the damages applied, returns those bytes, leaves dataSize as it was
\* and registers a RemoveChange holding the old record, whose rollback puts
\* the old record back.
C25_AsStated ==
    [][(Called("patch") /\ last'.status = "OK" /\ last'.loc \in Keys(records))
          => /\ last'.loc \in Keys(records')
             /\ records'[last'.loc].size = records[last'.loc].size
             /\ records'[last'.loc].data = last'.data
             /\ last'.data \in PatchedFrom(records[last'.loc].data)
             /\ dataSize' = dataSize
             /\ Len(journal') > Len(journal)
             /\ journal'[Len(journal) + 1] = RemoveChange(last'.loc, records[last'.loc])
             /\ Undone(journal', Len(journal), records', dataSize').records = records]_vars

\* C26: when the UpdateNotifier fails, updateRecord returns its failure and
\* leaves the record, dataSize and the journal as they were: no change is
\* registered and eviction does not run. The notifier is called once at
\* most, and only for a record that is in the table and that the update does
\* not grow on a capped store; an update refused for growth never calls it.
C26_NotifierFailure ==
    [][Called("update")
          => /\ last'.verdict = "fail"
                  => /\ last'.status = "NotifierFailed"
                     /\ TableUntouched
                     /\ last'.hooks = 0
             /\ last'.status = "NotifierFailed" => last'.verdict = "fail"
             /\ last'.notified
                  => /\ last'.loc \in Keys(records)
                     /\ ~(store.isCapped /\ Len(last'.data) > records[last'.loc].size)
             /\ last'.verdict # "none" => last'.notified
             /\ last'.status = "CappedGrowthNotAllowed"
                  => (~last'.notified /\ last'.verdict = "none")]_vars

\* the notifier failed an update on a table that is over its limit with an
\* undo pending, and no record was evicted
C26_Witness ==
    /\ last.op = "update" /\ last.status = "NotifierFailed" /\ last.notified
    /\ OverLimit(records)
    /\ journal # <<>>

C28_EvictionAssertionUnreachable ==
    [][/\ cappedAndNeedDelete([records |-> records', dataSize |-> dataSize'])
            => Keys(records') # {}
       /\ Called("insert") => last'.status # "fatal"
       /\ ((Called("update") \/ Called("patch")) /\ last'.status = "fatal")
            => (last'.loc \notin Keys(records) /\ TableUntouched)
       /\ (Wrote /\ last'.status \in {"OK", "CallbackFailed"} /\ OverLimit(records'))
            => last'.status = "CallbackFailed"]_vars

\* an insert on a table that a committed hook failure had left over its
\* limit evicted both records the table held and kept its own
C28_Witness ==
    /\ last.op = "insert" /\ last.status = "OK" /\ last.hooks = 2
    /\ OverLimit(snapshot.records)
    /\ Keys(records) = {last.loc}

\* C29: after an update or a patch of loc that returned OK, loc is in the
\* table and holds the payload the call wrote: the eviction of that call
\* never removes loc, also when an earlier hook failure had left the table
\* over its limit.
C29_AsStated ==
    [][((Called("update") \/ Called("patch")) /\ last'.status = "OK")
          => /\ last'.loc \in Keys(records')
             /\ records'[last'.loc] = InMemoryRecord(last'.data)]_vars

\* C30: on a table that is not capped, under a cursor that is only advanced,
\* saved and restored and writers that run between a save and the restore
\* that follows, every identifier next returns is above every identifier the
\* cursor returned before when the cursor is a forward one, and below when
\* it is a reverse one, whatever was inserted, deleted, updated, truncated
\* or rolled back in between.
C30_MonotoneOutput ==
    [][(CursorCalled("next") /\ ~store.isCapped /\ cursor'.ret # NullId)
          => /\ cursor'.seen = cursor'.ret
             /\ cursor'.ret \in Keys(records)
             /\ cursor.seen # NullId
                  => IF cursor.forward THEN cursor'.ret > cursor.seen
                     ELSE cursor'.ret < cursor.seen]_vars

\* a reverse cursor returned 3 and was saved there; 3 and 2 were deleted;
\* after the restore its next returned 1
C30_Witness ==
    /\ cursor.open /\ ~cursor.forward /\ cursor.op = "next"
    /\ cursor.ret = 1 /\ cursor.savedId = 3
    /\ Keys(records) = {1}
    /\ ~store.isCapped

\* The cursor has been positioned, the last call that returned a record or
\* none returned none, and no position is saved.
Ended(c) == c.open /\ ~c.needFirstSeek /\ c.ret = NullId /\ c.savedId = NullId

\* C31: once next has returned none, the save that follows records the null
\* identifier; the writers that run while the cursor is saved leave it as it
\* is; the restore that follows returns true, on a capped store too, and
\* leaves the cursor at the end; and the next that follows returns none
\* again, whatever records were inserted or deleted in between, so a record
\* inserted beyond the old end is not returned.
C31_StickyEnd ==
    [][/\ (cursor.open /\ cursor.op = "next" /\ cursor.ret = NullId /\ CursorCalled("save"))
            => (Ended(cursor') /\ cursor'.it = cursor.it)
       /\ (cursor.open /\ cursor.saved /\ (last' # last \/ journal' # journal))
            => cursor' = cursor
       /\ (Ended(cursor) /\ cursor.op = "save" /\ CursorCalled("restore"))
            => /\ cursor'.ok
               /\ Position(cursor', records) = NullId
               /\ ~cursor'.lastMoveWasRestore
               /\ Ended(cursor')
       /\ (Ended(cursor) /\ cursor.op = "restore" /\ CursorCalled("next"))
            => /\ cursor'.ret = NullId
               /\ cursor'.seen = cursor.seen
               /\ Position(cursor', records) = NullId]_vars

\* a forward cursor of a capped store that had returned its last record and
\* then none returns none again after a restore, with a record in the table
\* above every identifier it returned
C31_Witness ==
    /\ cursor.open /\ cursor.forward /\ cursor.isCapped /\ ~cursor.saved
    /\ cursor.op = "next" /\ cursor.ret = NullId /\ cursor.savedId = NullId
    /\ cursor.ok
    /\ cursor.seen # NullId
    /\ \E k \in Keys(records) : k > cursor.seen

====
